---- MODULE Spec2Model ----
(***************************************************************************)
(* Model of package sentryhttp (http/sentryhttp.go): the net/http          *)
(* middleware that binds a request-scoped hub into the request context,    *)
(* defers a recovery step, runs the wrapped handler and, on panic,         *)
(* reports, optionally flushes and optionally re-panics.                   *)
(*                                                                         *)
(* Every request is one goroutine; requests interleave between the steps   *)
(* Enter (hub lookup, clone, scope write), Serve (ServeHTTP and the        *)
(* recover() test), Report (RecoverWithContext) and Finish (Flush, panic   *)
(* or return).  trace[r] is the sequence of calls the wrapper made on      *)
(* behalf of request r, in order.                                          *)
(***************************************************************************)
EXTENDS Integers, Sequences, FiniteSets, TLC

VARIABLES options, goPanicNilError, h, wrapped, pc, inCtx, hub, outCtx,
          panicking, err, eventID, nextClone, scope, trace

vars == <<options, goPanicNilError, h, wrapped, pc, inCtx, hub, outCtx,
          panicking, err, eventID, nextClone, scope, trace>>

\* Number of requests served through the wrapper.
NumReqs == 2

Reqs == 1..NumReqs

\* time.Second * 2, in nanoseconds (time.Duration is an int64 of ns).
DefaultTimeout == 2000000000

\* Values of Options.Timeout tried: unset (0) and 50ms.
Timeouts == {0, 50000000}

Options == [Repanic : BOOLEAN, WaitForDelivery : BOOLEAN, Timeout : Timeouts]

\* Hub identities (pointers).  NoHub is the nil *sentry.Hub.
NoHub == <<"nil", 0>>

\* sentry.CurrentHub(): the process-wide default hub.
DefaultHub == <<"current", 0>>

\* Hubs some outer middleware created and may have bound into a context.
ParentHubs == {<<"parent", 0>>}

CloneHub(n) == <<"clone", n>>

AllHubs == {DefaultHub} \cup ParentHubs \cup {CloneHub(n) : n \in 1..NumReqs}

\* What the context of an inbound request may carry under the hub key.
InboundHubs == {NoHub, DefaultHub} \cup ParentHubs

\* Values a handler may pass to panic().  NilValue is the nil interface.
NilValue == "nil"

PanicNilError == "*runtime.PanicNilError"

PanicValues == {NilValue, "boom"}

\* *sentry.EventID returned by RecoverWithContext: nil or a real id.
NilEventID == "nil"

EventIDs == {NilEventID, "id"}

\* The scope of a hub holds the request last set on it: <<>> or <<r>>.
EmptyScope == <<>>

\* A context.Context: the hub bound under the hub key and the request
\* bound under sentry.RequestContextKey.
EmptyCtx == [hub |-> NoHub, request |-> <<>>]

\* The http.ResponseWriter the server hands over with request r.
Writer(r) == <<"w", r>>

-----------------------------------------------------------------------------
\* New with the Timeout override left out.
MutNewIgnoresTimeout(o) ==
  [repanic         |-> IF o.Repanic THEN TRUE ELSE FALSE,
   timeout         |-> DefaultTimeout,
   waitForDelivery |-> IF o.WaitForDelivery THEN TRUE ELSE FALSE]

\* New: defaults, overridden field by field from the options.
New(o) ==
  [repanic         |-> IF o.Repanic THEN TRUE ELSE FALSE,
   timeout         |-> IF o.Timeout # 0 THEN o.Timeout ELSE DefaultTimeout,
   waitForDelivery |-> IF o.WaitForDelivery THEN TRUE ELSE FALSE]

\* sentry.GetHubFromContext
GetHubFromContext(ctx) == ctx.hub

\* sentry.SetHubOnContext
SetHubOnContext(ctx, hb) == [ctx EXCEPT !.hub = hb]

\* context.WithValue(ctx, sentry.RequestContextKey, r)
WithRequest(ctx, r) == [ctx EXCEPT !.request = <<r>>]

\* hub = sentry.CurrentHub(), the .Clone() left out.
MutChooseHubNoClone(found, fresh) == IF found = NoHub THEN DefaultHub ELSE found

\* The hub of the context ignored: always a fresh hub.
MutChooseHubAlwaysFresh(found, fresh) == fresh

\* if hub == nil { hub = sentry.CurrentHub().Clone() }
ChooseHub(found, fresh) == IF found = NoHub THEN fresh ELSE found

\* recover() in the deferred call.  p is <<>> when the handler returned,
\* <<v>> when it called panic(v).  panic(nil) is seen as nil by recover()
\* in builds before Go 1.21 (or with GODEBUG=panicnil=1), and as a
\* *runtime.PanicNilError otherwise.
Recover(p, panicNilError) ==
  IF p = <<>> THEN NilValue
  ELSE IF p[1] = NilValue
       THEN (IF panicNilError THEN PanicNilError ELSE NilValue)
       ELSE p[1]

\* The err != nil test left out.
MutRecoveredAlways(e) == TRUE

\* if err := recover(); err != nil
Recovered(e) == e # NilValue

\* The h.waitForDelivery conjunct left out.
MutShouldFlushIgnoresWait(id, hd) == id # NilEventID

\* if eventID != nil && h.waitForDelivery
ShouldFlush(id, hd) == id # NilEventID /\ hd.waitForDelivery

\* The package default passed instead of the handler's timeout.
MutFlushTimeoutDefault(hd) == DefaultTimeout

\* hub.Flush(h.timeout)
FlushTimeout(hd) == hd.timeout

\* The h.repanic test left out.
MutShouldRepanicAlways(hd) == TRUE

\* if h.repanic
ShouldRepanic(hd) == hd.repanic

-----------------------------------------------------------------------------
Init ==
  /\ options \in Options
  /\ goPanicNilError \in BOOLEAN
  /\ h = New(options)
  /\ wrapped = FALSE
  /\ pc = [r \in Reqs |-> "idle"]
  /\ inCtx = [r \in Reqs |-> EmptyCtx]
  /\ hub = [r \in Reqs |-> NoHub]
  /\ outCtx = [r \in Reqs |-> EmptyCtx]
  /\ panicking = [r \in Reqs |-> <<>>]
  /\ err = [r \in Reqs |-> NilValue]
  /\ eventID = [r \in Reqs |-> NilEventID]
  /\ nextClone = 1
  /\ scope = [x \in AllHubs |-> EmptyScope]
  /\ trace = [r \in Reqs |-> <<>>]

\* Handler.Handle: wrap an http.Handler; returns h.handle(handler).
Handle ==
  /\ wrapped' = TRUE
  /\ UNCHANGED <<options, goPanicNilError, h, pc, inCtx, hub, outCtx,
                 panicking, err, eventID, nextClone, scope, trace>>

\* Handler.HandleFunc: the deprecated alias; returns h.handle(handler) too.
HandleFunc ==
  /\ wrapped' = TRUE
  /\ UNCHANGED <<options, goPanicNilError, h, pc, inCtx, hub, outCtx,
                 panicking, err, eventID, nextClone, scope, trace>>

\* The closure returned by handle, up to the defer: look the hub up,
\* clone the default hub when there is none, set the request on the hub's
\* scope, bind the hub into a new context.
Enter(r) ==
  /\ pc[r] = "idle"
  /\ wrapped
  /\ \E inbound \in InboundHubs :
       LET ctx   == [EmptyCtx EXCEPT !.hub = inbound]
           found == GetHubFromContext(ctx)
           fresh == CloneHub(nextClone)
           hb    == ChooseHub(found, fresh)
           sc    == IF found = NoHub
                    THEN [scope EXCEPT ![fresh] = scope[DefaultHub]]
                    ELSE scope
           cl    == IF found = NoHub THEN <<<<"Clone", fresh>>>> ELSE <<>>
       IN /\ inCtx' = [inCtx EXCEPT ![r] = ctx]
          /\ nextClone' = IF found = NoHub THEN nextClone + 1 ELSE nextClone
          /\ hub' = [hub EXCEPT ![r] = hb]
          /\ scope' = [sc EXCEPT ![hb] = <<r>>]
          /\ outCtx' = [outCtx EXCEPT ![r] = SetHubOnContext(ctx, hb)]
          /\ trace' = [trace EXCEPT ![r] = @ \o cl \o <<<<"SetRequest", hb, r>>>>]
  /\ pc' = [pc EXCEPT ![r] = "serving"]
  /\ UNCHANGED <<options, goPanicNilError, h, wrapped, panicking, err, eventID>>

\* handler.ServeHTTP(w, r.WithContext(ctx)): the wrapped handler runs and
\* either returns or panics with some value; either way the deferred
\* recoverWithSentry then starts with its recover() test.  A nil result ends
\* the wrapper call normally (recover() has stopped any panic).
Serve(r) ==
  /\ pc[r] = "serving"
  /\ \E p \in {<<>>} \cup {<<v>> : v \in PanicValues} :
       LET e == Recover(p, goPanicNilError)
       IN /\ panicking' = [panicking EXCEPT ![r] = p]
          /\ err' = [err EXCEPT ![r] = e]
          /\ pc' = [pc EXCEPT ![r] = IF Recovered(e) THEN "report" ELSE "returned"]
  /\ trace' = [trace EXCEPT ![r] = @ \o <<<<"ServeHTTP", Writer(r), outCtx[r]>>>>]
  /\ UNCHANGED <<options, goPanicNilError, h, wrapped, inCtx, hub, outCtx,
                 eventID, nextClone, scope>>

\* eventID := hub.RecoverWithContext(context.WithValue(r.Context(), key, r), err)
Report(r) ==
  /\ pc[r] = "report"
  /\ \E id \in EventIDs : eventID' = [eventID EXCEPT ![r] = id]
  /\ trace' = [trace EXCEPT ![r] =
        @ \o <<<<"RecoverWithContext", hub[r], WithRequest(inCtx[r], r), err[r]>>>>]
  /\ pc' = [pc EXCEPT ![r] = "reported"]
  /\ UNCHANGED <<options, goPanicNilError, h, wrapped, inCtx, hub, outCtx,
                 panicking, err, nextClone, scope>>

\* The rest of recoverWithSentry, run without a break by the request's
\* goroutine: if eventID != nil && h.waitForDelivery { hub.Flush(h.timeout) },
\* then if h.repanic { panic(err) }, else the wrapper call returns.
Finish(r) ==
  /\ pc[r] = "reported"
  /\ LET fl == IF ShouldFlush(eventID[r], h)
               THEN <<<<"Flush", hub[r], FlushTimeout(h)>>>>
               ELSE <<>>
     IN IF ShouldRepanic(h)
        THEN /\ trace' = [trace EXCEPT ![r] = @ \o fl \o <<<<"panic", err[r]>>>>]
             /\ pc' = [pc EXCEPT ![r] = "panicked"]
        ELSE /\ trace' = [trace EXCEPT ![r] = @ \o fl]
             /\ pc' = [pc EXCEPT ![r] = "returned"]
  /\ UNCHANGED <<options, goPanicNilError, h, wrapped, inCtx, hub, outCtx,
                 panicking, err, eventID, nextClone, scope>>

Next ==
  \/ Handle
  \/ HandleFunc
  \/ \E r \in Reqs : Enter(r)
  \/ \E r \in Reqs : Serve(r)
  \/ \E r \in Reqs : Report(r)
  \/ \E r \in Reqs : Finish(r)

Spec == Init /\ [][Next]_vars

-----------------------------------------------------------------------------
\* Reading the trace of a request.

\* Positions in trace[r] of the calls named op.
Calls(r, op) == {i \in 1..Len(trace[r]) : trace[r][i][1] = op}

\* The wrapper call for r has ended: it returned or it panicked.
Done(r) == pc[r] \in {"returned", "panicked"}

\* The wrapped handler of r called panic().
HandlerPanicked(r) == panicking[r] # <<>>

\* Hubs the wrapper wrote to for r: set-request, fault-report, flush.
WrittenHubs(r) ==
  {trace[r][i][2] : i \in Calls(r, "SetRequest") \cup
                          Calls(r, "RecoverWithContext") \cup Calls(r, "Flush")}

\* The hub the downstream handler finds in its request's context.
SeenHub(r) == outCtx[r].hub

-----------------------------------------------------------------------------
\* C1: whenever the wrapped handler panicked with V and the wrapper call has
\* ended, RecoverWithContext was called exactly once for the request, with
\* the value V and a context carrying the inbound request under the request
\* key.
C1_PanicReportedOnceWithValue ==
  \A r \in Reqs :
    (HandlerPanicked(r) /\ Done(r)) =>
      /\ Cardinality(Calls(r, "RecoverWithContext")) = 1
      /\ \A i \in Calls(r, "RecoverWithContext") :
           /\ trace[r][i][4] = panicking[r][1]
           /\ trace[r][i][3].request = <<r>>

\* C2: with repanic set, a wrapper call whose handler panicked with V ends
\* by panicking with V, and its calls are in the order report, optional
\* flush, re-panic.
C2_RepanicSameValueAfterReport ==
  \A r \in Reqs :
    (h.repanic /\ HandlerPanicked(r) /\ Done(r)) =>
      /\ pc[r] = "panicked"
      /\ Cardinality(Calls(r, "panic")) = 1
      /\ \A k \in Calls(r, "panic") :
           /\ k = Len(trace[r])
           /\ trace[r][k][2] = panicking[r][1]
           /\ \E i \in Calls(r, "RecoverWithContext") : i < k
           /\ \A i \in Calls(r, "RecoverWithContext"), j \in Calls(r, "Flush") :
                i < j /\ j < k
           /\ (eventID[r] # NilEventID /\ h.waitForDelivery) =>
                Calls(r, "Flush") # {}

C4_FlushOnceWithTimeout ==
  \A r \in Reqs :
    (h.waitForDelivery /\ eventID[r] # NilEventID) =>
      /\ pc[r] = "reported" => Calls(r, "Flush") = {}
      /\ Done(r) =>
           /\ Cardinality(Calls(r, "Flush")) = 1
           /\ \A j \in Calls(r, "Flush") :
                /\ trace[r][j] = <<"Flush", SeenHub(r), h.timeout>>
                /\ j > 1
                /\ trace[r][j - 1][1] = "RecoverWithContext"
                /\ trace[r][j - 1][2] = trace[r][j][2]
                /\ \A k \in Calls(r, "panic") : j < k
                /\ Done(r) => j >= Len(trace[r]) - 1

C4_Witness ==
  \E r \in Reqs :
    /\ h.waitForDelivery
    /\ h.timeout # DefaultTimeout
    /\ eventID[r] # NilEventID
    /\ pc[r] = "panicked"
    /\ Calls(r, "Flush") # {}

\* C5: Flush is never called for a request unless waitForDelivery is set,
\* the handler panicked and the fault-report returned an event id.
C5_NoFlushUnlessDue ==
  \A r \in Reqs :
    (~h.waitForDelivery \/ eventID[r] = NilEventID \/ ~HandlerPanicked(r)) =>
      Calls(r, "Flush") = {}

C5_Witness ==
  \E r \in Reqs :
    /\ ~h.waitForDelivery
    /\ eventID[r] # NilEventID
    /\ Done(r)
    /\ Calls(r, "RecoverWithContext") # {}

\* C6: a wrapper call whose handler returned without panicking called the
\* handler exactly once, with the original response writer, made no
\* fault-report, flush or panic, and returned normally.
C6_NoPanicPassThrough ==
  \A r \in Reqs :
    (Done(r) /\ ~HandlerPanicked(r)) =>
      /\ pc[r] = "returned"
      /\ Cardinality(Calls(r, "ServeHTTP")) = 1
      /\ \A i \in Calls(r, "ServeHTTP") : trace[r][i][2] = Writer(r)
      /\ Calls(r, "RecoverWithContext") = {}
      /\ Calls(r, "Flush") = {}
      /\ Calls(r, "panic") = {}

C6_Witness ==
  \E r \in Reqs :
    /\ Done(r)
    /\ ~HandlerPanicked(r)
    /\ h.repanic
    /\ h.waitForDelivery

\* C7: the hub the downstream handler finds in its context is never nil; it
\* is the hub of the inbound context when there is one, and then nothing is
\* cloned; otherwise it is the one clone made for the request, a hub that is
\* neither the default hub, nor a pre-existing hub, nor another request's
\* clone.  Fault-report and flush go to that same hub.
C7_HubChoice ==
  \A r \in Reqs :
    \A i \in Calls(r, "ServeHTTP") :
      LET seen == trace[r][i][3].hub
      IN /\ seen # NoHub
         /\ inCtx[r].hub # NoHub =>
              /\ seen = inCtx[r].hub
              /\ Calls(r, "Clone") = {}
         /\ inCtx[r].hub = NoHub =>
              /\ Cardinality(Calls(r, "Clone")) = 1
              /\ \A j \in Calls(r, "Clone") : trace[r][j][2] = seen
              /\ seen \notin InboundHubs
              /\ \A q \in Reqs \ {r} :
                   \A j \in Calls(q, "Clone") : trace[q][j][2] # seen
         /\ \A j \in Calls(r, "RecoverWithContext") \cup Calls(r, "Flush") :
              trace[r][j][2] = seen

C7_Witness ==
  \E r, q \in Reqs :
    /\ inCtx[r].hub \in ParentHubs
    /\ inCtx[q].hub = NoHub
    /\ Calls(r, "Flush") # {}
    /\ Calls(q, "Flush") # {}
    /\ Done(r)
    /\ Done(q)

\* C8: the handler New returned has repanic and waitForDelivery equal to
\* the options', and timeout equal to the options' when that is non-zero
\* and to 2 seconds when it is zero; and no step of Handle, HandleFunc or
\* request handling changes the handler.
C8_NewFieldsAndImmutable ==
  /\ [](/\ h.repanic = options.Repanic
        /\ h.waitForDelivery = options.WaitForDelivery
        /\ options.Timeout # 0 => h.timeout = options.Timeout
        /\ options.Timeout = 0 => h.timeout = 2 * 1000000000)
  /\ [][h' = h]_vars

C8_Witness ==
  /\ options.Timeout # 0
  /\ \E r, q \in Reqs :
       /\ r # q
       /\ pc[r] = "reported"
       /\ pc[q] = "serving"

\* C9 as stated: no two distinct requests ever have the wrapper write
\* (set-request, fault-report, flush) to the same hub.
C9_NoHubSharedAcrossRequests ==
  \A r, q \in Reqs :
    r # q => WrittenHubs(r) \cap WrittenHubs(q) = {}

\* C9 as amended: two distinct requests whose inbound contexts carry no hub
\* never have the wrapper write to the same hub.
C9_ClonedHubsNotShared ==
  \A r, q \in Reqs :
    (r # q /\ inCtx[r].hub = NoHub /\ inCtx[q].hub = NoHub) =>
      WrittenHubs(r) \cap WrittenHubs(q) = {}

C9_Witness ==
  \E r, q \in Reqs :
    /\ r # q
    /\ inCtx[r].hub = NoHub
    /\ inCtx[q].hub = NoHub
    /\ Calls(r, "Flush") # {}
    /\ Calls(q, "Flush") # {}

\* C10 as stated: the default hub's scope never changes and the wrapper
\* never writes to the default hub.
C10_DefaultHubNeverMutated ==
  /\ scope[DefaultHub] = EmptyScope
  /\ \A r \in Reqs : DefaultHub \notin WrittenHubs(r)

\* C10 as amended: for a request whose inbound context does not carry the
\* default hub itself the wrapper never writes to the default hub, and the
\* default hub's scope is unchanged unless it holds a request that carried
\* the default hub in.
C10_DefaultHubMutatedOnlyWhenCarried ==
  /\ \A r \in Reqs :
       inCtx[r].hub # DefaultHub => DefaultHub \notin WrittenHubs(r)
  /\ \/ scope[DefaultHub] = EmptyScope
     \/ \E r \in Reqs : /\ scope[DefaultHub] = <<r>>
                        /\ pc[r] # "idle"
                        /\ inCtx[r].hub = DefaultHub

C10_Witness ==
  /\ scope[DefaultHub] = EmptyScope
  /\ \A r \in Reqs : Done(r) /\ inCtx[r].hub # DefaultHub
  /\ \E r \in Reqs : inCtx[r].hub = NoHub /\ Calls(r, "Flush") # {}

====
